---- MODULE Spec2Model ----
(***************************************************************************)
(* A model of craftutils' retrieve.py: the FORS2 header stripping, the     *)
(* IRSA table-URL extraction, the IRSA/SDSS/DES "update" handlers with the *)
(* output values they record, and the DESaccess client (login, token       *)
(* refresh, job submission, status polling, file retrieval).               *)
(*                                                                         *)
(* Strings are sequences of one-character strings; Python's indexing and   *)
(* slicing rules (0-based, negative indices, clamping) are modelled by     *)
(* PyIndexOK / PySlice / PyFind.                                           *)
(***************************************************************************)
EXTENDS Integers, Sequences, FiniteSets, TLC

VARIABLES
    \* ---- text handlers (save_fors2_calib, retrieve_irsa_extinction) ----
    text,        \* the external response the handler works on
    outstr,      \* the string the handler produced (file contents / URL)
    spc,         \* position of the text handler: "start", "done", "raised", "hang"
    \* ---- DESaccess client ----
    keys_token,  \* keys['des_auth_token'] (NoToken: the key is absent)
    issued,      \* history: the token the server issued most recently
    issuedOk,    \* history: ... leaving out the replies that reject a submission
    loggedIn,    \* history: login_des has succeeded
    reqAuth,     \* history: Authorization token of the last authenticated request
    reqLatest,   \* history: value of issued when that request was sent
    reqLatestOk, \* history: value of issuedOk when that request was sent
    fn,          \* the top-level function being (or last) executed
    pc,          \* "idle", "loop", "sleep", "polled"
    ret,         \* what the last completed call returned or raised
    force,       \* the force argument of the current update_* call
    job_status,  \* job_status_poll_des: local job_status
    response,    \* job_status_poll_des: local response
    lastReply,   \* history: reply to the last status request
    sleptLast,   \* history: a sleep happened after the last status request
    nreq,        \* history: status requests sent by the current call (saturating)
    sentAny,     \* history: the current call sent an authenticated request
    preTok,      \* history: keys_token when the current call started
    accepted,    \* history: status of the current call's submission reply
    listed,      \* history: what the job's file listing held
    wrote,       \* history: the current call wrote a file
    needed,      \* history: the current update_* call found retrieval needed
    \* ---- local files and recorded output values ----
    files,       \* data files on disk: [name -> contents]
    outputs,     \* output_values files: [field -> record]
    retrNF,      \* history: force=False calls that retrieved, per update function
    extRetr,     \* history: IRSA retrievals made by update_frb_irsa_extinction
    extVal,      \* history: the E(B-V) value the last IRSA retrieval returned
    extCalls     \* history: completed calls of update_frb_irsa_extinction

textVars == <<text, outstr, spc>>
desVars == <<keys_token, issued, issuedOk, loggedIn, reqAuth, reqLatest, reqLatestOk, fn, pc, ret, force,
             job_status, response, lastReply, sleptLast, nreq, sentAny, preTok,
             accepted, listed, wrote, needed>>
diskVars == <<files, outputs, retrNF, extRetr, extVal, extCalls>>
vars == <<textVars, desVars, diskVars>>

(***************************************************************************)
(* Bounds of the model.                                                    *)
(***************************************************************************)
MaxLen == 4      \* longest FORS2 page drawn
MaxParts == 3    \* most fragments an IRSA XML is assembled from
MaxTok == 2      \* distinct auth tokens the server hands out
MaxCount == 2    \* saturation of the history counters
MaxVal == 2      \* distinct E(B-V) values the IRSA tool returns
MaxItems == 2    \* most entries in a job's file listing
MaxWords == 1    \* most words in an extinction table

Min(a, b) == IF a < b THEN a ELSE b
Max(a, b) == IF a > b THEN a ELSE b
Bump(n) == Min(n + 1, MaxCount)

(***************************************************************************)
(* Python string primitives.                                               *)
(***************************************************************************)
\* s[a:b]
PySlice(s, a, b) ==
    LET n == Len(s)
        lo == IF a < 0 THEN Max(n + a, 0) ELSE Min(a, n)
        hi == IF b < 0 THEN Max(n + b, 0) ELSE Min(b, n)
    IN  IF lo >= hi THEN <<>> ELSE SubSeq(s, lo + 1, hi)

\* s[a:]
PyFrom(s, a) == PySlice(s, a, Len(s))

\* s[j] raises IndexError outside -len .. len-1
PyIndexOK(s, j) == j >= -Len(s) /\ j < Len(s)
PyAt(s, j) == IF j < 0 THEN s[Len(s) + j + 1] ELSE s[j + 1]

\* s.find(sub): lowest index of sub in s, -1 when absent
PyFind(s, sub) ==
    LET hits == {k \in 0..(Len(s) - Len(sub)) : SubSeq(s, k + 1, k + Len(sub)) = sub}
    IN  IF hits = {} THEN -1 ELSE CHOOSE k \in hits : \A m \in hits : k <= m

\* bytes.replace(old, b'') for a one-character old
RECURSIVE PyRemoveChar(_, _)
PyRemoveChar(s, c) ==
    IF s = <<>> THEN <<>>
    ELSE IF Head(s) = c THEN PyRemoveChar(Tail(s), c)
         ELSE <<Head(s)>> \o PyRemoveChar(Tail(s), c)

RECURSIVE Strings(_, _)
Strings(alphabet, n) ==
    IF n = 0 THEN {<<>>}
    ELSE LET shorter == Strings(alphabet, n - 1)
         IN  shorter \cup {Append(s, c) : s \in shorter, c \in alphabet}

(***************************************************************************)
(* FORS2 QC1 table: retrieve_fors2_calib / save_fors2_calib.               *)
(***************************************************************************)
FORS2Alphabet == {"a", "-", "\n", "!"}

\* str(page.read().replace(b'!', b''), 'utf-8')
retrieve_fors2_calib(page) == PyRemoveChar(page, "!")

\* while string[j] == '-': j += 1      (-1: string[j] raised IndexError)
RECURSIVE DashScan(_, _)
DashScan(string, j) ==
    IF ~PyIndexOK(string, j) THEN -1
    ELSE IF PyAt(string, j) = "-" THEN DashScan(string, j + 1)
         ELSE j

\* i = j = string.find('\n') + 1; the scan; string[:i] + string[j + 1:]
save_fors2_calib(page) ==
    LET string == retrieve_fors2_calib(page)
        i == PyFind(string, <<"\n">>) + 1
        j == DashScan(string, i)
    IN  IF j = -1
        THEN [raised |-> TRUE, string |-> <<>>]
        ELSE [raised |-> FALSE, string |-> PySlice(string, 0, i) \o PyFrom(string, j + 1)]

SaveFors2Calib ==
    /\ spc = "fors_start"
    /\ LET r == save_fors2_calib(text)
       IN  /\ outstr' = r.string
           /\ spc' = IF r.raised THEN "fors_raised" ELSE "fors_done"
    /\ UNCHANGED <<text, desVars, diskVars>>

(***************************************************************************)
(* IRSA Dust Tool XML: the table URL of retrieve_irsa_extinction.          *)
(***************************************************************************)
Https == <<"h", "t", "t", "p", "s", ":", "/", "/">>
ExtinctionTbl == <<"e", "x", "t", "i", "n", "c", "t", "i", "o", "n", ".", "t", "b", "l">>
XmlParts == {Https, ExtinctionTbl, <<"x">>, <<"h", "t", "t", "p", ":", "/", "/">>}

RECURSIVE Concats(_, _)
Concats(parts, n) ==
    IF n = 0 THEN {<<>>}
    ELSE LET shorter == Concats(parts, n - 1)
         IN  shorter \cup {s \o q : s \in shorter, q \in parts}

\* while substr != "https://": i -= 1; substr = irsa_xml[i:i + 8]
\* Once i + 8 <= -len(irsa_xml) every further slice is empty: the loop never exits.
RECURSIVE ScanBack(_, _)
ScanBack(irsa_xml, i) ==
    IF PySlice(irsa_xml, i, i + Len(Https)) = Https THEN [hang |-> FALSE, i |-> i]
    ELSE IF i + Len(Https) <= -Len(irsa_xml) THEN [hang |-> TRUE, i |-> i]
         ELSE ScanBack(irsa_xml, i - 1)

\* A variant that takes the first 'https://' of the document instead of scanning
\* back from the table name.
table_url_first(irsa_xml) ==
    LET i0 == PyFind(irsa_xml, ExtinctionTbl)
        j == i0 + Len(ExtinctionTbl)
        k == PyFind(irsa_xml, Https)
    IN  IF k = -1 THEN [hang |-> TRUE, url |-> <<>>]
        ELSE [hang |-> FALSE, url |-> PySlice(irsa_xml, k, j)]

\* i = irsa_xml.find("extinction.tbl"); j = i + 14; the scan; irsa_xml[i:j]
table_url(irsa_xml) ==
    LET i0 == PyFind(irsa_xml, ExtinctionTbl)
        j == i0 + Len(ExtinctionTbl)
        r == ScanBack(irsa_xml, i0)
    IN  IF r.hang THEN [hang |-> TRUE, url |-> <<>>]
        ELSE [hang |-> FALSE, url |-> PySlice(irsa_xml, r.i, j)]

RetrieveIrsaExtinction ==
    /\ spc = "irsa_start"
    /\ LET r == table_url(text)
       IN  /\ outstr' = r.url
           /\ spc' = IF r.hang THEN "irsa_hang" ELSE "irsa_done"
    /\ UNCHANGED <<text, desVars, diskVars>>

(***************************************************************************)
(* DESaccess client.  The server's replies are inputs.  A reply carries the *)
(* fields the client reads from it unconditionally: an accepted submission *)
(* carries 'jobid' and 'new_token', a status reply carries 'new_token'     *)
(* and, when its status is 'ok', 'jobs'.  A rejected submission carries no *)
(* 'jobid' (check_success_des: job_id = None) and may or may not carry a   *)
(* 'new_token', which the client never reads; a status reply with an error *)
(* may or may not carry 'jobs'.                                            *)
(***************************************************************************)
NoToken == 0
Tokens == 1..MaxTok
JobStatuses == {"started", "success", "failure", "ok"}

NoResponse == [status |-> "None", jobs |-> FALSE, job_status |-> "", new_token |-> NoToken]

LoginReplies ==
    {[status |-> "ok", token |-> t] : t \in Tokens}
        \cup {[status |-> "error", token |-> NoToken]}

SubmitReplies ==
    {[status |-> "ok", new_token |-> t] : t \in Tokens}
        \cup {[status |-> "error", new_token |-> t] : t \in Tokens \cup {NoToken}}

StatusReplies ==
    {[status |-> st, jobs |-> TRUE, job_status |-> js, new_token |-> t] :
        st \in {"ok", "error"}, js \in JobStatuses, t \in Tokens}
        \cup {[status |-> "error", jobs |-> FALSE, job_status |-> "", new_token |-> t] :
                t \in Tokens}

\* The client-side token store with the history of what was sent and issued.
Client ==
    [token |-> keys_token, issued |-> issued, issuedOk |-> issuedOk,
     loggedIn |-> loggedIn, reqAuth |-> reqAuth, reqLatest |-> reqLatest,
     reqLatestOk |-> reqLatestOk, sentAny |-> FALSE]

SetClient(c) ==
    /\ keys_token' = c.token
    /\ issued' = c.issued
    /\ issuedOk' = c.issuedOk
    /\ loggedIn' = c.loggedIn
    /\ reqAuth' = c.reqAuth
    /\ reqLatest' = c.reqLatest
    /\ reqLatestOk' = c.reqLatestOk
    /\ sentAny' = c.sentAny

\* headers={'Authorization': f'Bearer {keys["des_auth_token"]}'}
SendAuthenticated(c) ==
    [c EXCEPT !.reqAuth = c.token, !.reqLatest = c.issued,
              !.reqLatestOk = c.issuedOk, !.sentAny = TRUE]

\* The server hands out a token in a reply (rejecting: the reply rejects a submission).
ServerIssues(c, tok, rejecting) ==
    IF tok = NoToken THEN c
    ELSE IF rejecting THEN [c EXCEPT !.issued = tok]
    ELSE [c EXCEPT !.issued = tok, !.issuedOk = tok]

\* keys['des_auth_token'] = r.json()['token']   (KeyError when the reply has none)
login_des(c, reply) ==
    IF reply.status = "ok"
    THEN [raised |-> FALSE,
          c |-> [ServerIssues(c, reply.token, FALSE) EXCEPT !.token = reply.token,
                                                     !.loggedIn = TRUE]]
    ELSE [raised |-> TRUE, c |-> c]

\* if 'des_auth_token' not in keys: raise KeyError
check_auth_token_des(c) == c.token # NoToken

\* if response['status'] == 'ok': keys['des_auth_token'] = response['new_token']
check_success_des(c, reply) ==
    IF reply.status = "ok" THEN [c EXCEPT !.token = reply.new_token] ELSE c

submit_query_job_des(c, reply) ==
    IF ~check_auth_token_des(c)
    THEN [raised |-> TRUE, c |-> c]
    ELSE [raised |-> FALSE,
          c |-> check_success_des(ServerIssues(SendAuthenticated(c), reply.new_token,
                                               reply.status # "ok"),
                                  reply)]

submit_cutout_job_des(c, reply) ==
    IF ~check_auth_token_des(c)
    THEN [raised |-> TRUE, c |-> c]
    ELSE [raised |-> FALSE,
          c |-> check_success_des(ServerIssues(SendAuthenticated(c), reply.new_token,
                                               reply.status # "ok"),
                                  reply)]

\* A variant that refreshes the token only when the status is 'ok', as
\* check_success_des does for submissions.
get_job_status_des_ok_only(c, reply) ==
    IF ~check_auth_token_des(c)
    THEN [raised |-> TRUE, c |-> c]
    ELSE [raised |-> FALSE,
          c |-> check_success_des(ServerIssues(SendAuthenticated(c), reply.new_token, FALSE),
                                  reply)]

\* keys['des_auth_token'] = response['new_token'], whatever the status
get_job_status_des(c, reply) ==
    IF ~check_auth_token_des(c)
    THEN [raised |-> TRUE, c |-> c]
    ELSE [raised |-> FALSE,
          c |-> [ServerIssues(SendAuthenticated(c), reply.new_token, FALSE)
                     EXCEPT !.token = reply.new_token]]

\* The per-call locals and history at the start of a call.
Fresh ==
    [pc |-> "idle", ret |-> "pending", force |-> FALSE, job_status |-> "",
     response |-> NoResponse, lastReply |-> NoResponse, sleptLast |-> FALSE,
     nreq |-> 0, accepted |-> "none", listed |-> "none", wrote |-> FALSE,
     needed |-> FALSE]

SetCall(name, st) ==
    /\ fn' = name
    /\ pc' = st.pc
    /\ ret' = st.ret
    /\ force' = st.force
    /\ job_status' = st.job_status
    /\ response' = st.response
    /\ lastReply' = st.lastReply
    /\ sleptLast' = st.sleptLast
    /\ nreq' = st.nreq
    /\ preTok' = keys_token
    /\ accepted' = st.accepted
    /\ listed' = st.listed
    /\ wrote' = st.wrote
    /\ needed' = st.needed

Raised(exc) == [Fresh EXCEPT !.ret = exc]
Returned(value) == [Fresh EXCEPT !.ret = value]

\* ---- the functions a caller can invoke directly, each one request ----
LoginDes(reply) ==
    /\ pc = "idle"
    /\ LET r == login_des(Client, reply)
       IN  /\ SetClient(r.c)
           /\ SetCall("login_des", IF r.raised THEN Raised("KeyError") ELSE Returned("token"))
    /\ UNCHANGED <<textVars, diskVars>>

SubmitQueryJobDes(reply) ==
    /\ pc = "idle"
    /\ LET r == submit_query_job_des(Client, reply)
       IN  /\ SetClient(r.c)
           /\ SetCall("submit_query_job_des",
                      IF r.raised THEN Raised("KeyError")
                      ELSE [Returned("response") EXCEPT !.accepted = reply.status])
    /\ UNCHANGED <<textVars, diskVars>>

SubmitCutoutJobDes(reply) ==
    /\ pc = "idle"
    /\ LET r == submit_cutout_job_des(Client, reply)
       IN  /\ SetClient(r.c)
           /\ SetCall("submit_cutout_job_des",
                      IF r.raised THEN Raised("KeyError")
                      ELSE [Returned("response") EXCEPT !.accepted = reply.status])
    /\ UNCHANGED <<textVars, diskVars>>

GetJobStatusDes(reply) ==
    /\ pc = "idle"
    /\ LET r == get_job_status_des(Client, reply)
       IN  /\ SetClient(r.c)
           /\ SetCall("get_job_status_des",
                      IF r.raised THEN Raised("KeyError")
                      ELSE [Returned("response") EXCEPT !.response = reply,
                                                        !.lastReply = reply,
                                                        !.nreq = 1])
    /\ UNCHANGED <<textVars, diskVars>>

\* ---- job_status_poll_des ----
\* job_status = ''; response = None; while job_status != 'ok':
JobStatusPollDes ==
    /\ pc = "idle"
    /\ SetClient(Client)
    /\ SetCall("job_status_poll_des", [Fresh EXCEPT !.pc = "loop"])
    /\ UNCHANGED <<textVars, diskVars>>

\* One pass of the loop body up to the sleep.
poll_body(reply, js) ==
    IF reply.status # "ok" THEN [pc |-> "polled", job_status |-> js]
    ELSE IF reply.job_status \in {"success", "failure"}
         THEN [pc |-> "polled", job_status |-> reply.job_status]
         ELSE [pc |-> "sleep", job_status |-> reply.job_status]

PollIter(reply) ==
    /\ pc = "loop"
    /\ job_status # "ok"
    /\ LET r == get_job_status_des([Client EXCEPT !.sentAny = sentAny], reply)
           b == poll_body(reply, job_status)
       IN  /\ SetClient(r.c)
           /\ IF r.raised
              THEN /\ pc' = "idle"
                   /\ ret' = "KeyError"
                   /\ UNCHANGED <<response, lastReply, job_status, nreq, sleptLast>>
              ELSE /\ pc' = b.pc
                   /\ job_status' = b.job_status
                   /\ response' = reply
                   /\ lastReply' = reply
                   /\ nreq' = Bump(nreq)
                   /\ sleptLast' = FALSE
                   /\ UNCHANGED ret
    /\ UNCHANGED <<fn, force, preTok, accepted, listed, wrote, needed>>
    /\ UNCHANGED <<textVars, diskVars>>

\* time.sleep(3), then back to the loop test
Sleep ==
    /\ pc = "sleep"
    /\ pc' = "loop"
    /\ sleptLast' = TRUE
    /\ UNCHANGED <<keys_token, issued, issuedOk, loggedIn, reqAuth, reqLatest, reqLatestOk, fn, ret, force,
                   job_status, response, lastReply, nreq, sentAny, preTok, accepted,
                   listed, wrote, needed>>
    /\ UNCHANGED <<textVars, diskVars>>

\* the loop test fails: job_status == 'ok'
PollExit ==
    /\ pc = "loop"
    /\ job_status = "ok"
    /\ pc' = "polled"
    /\ UNCHANGED <<keys_token, issued, issuedOk, loggedIn, reqAuth, reqLatest, reqLatestOk, fn, ret, force,
                   job_status, response, lastReply, sleptLast, nreq, sentAny, preTok,
                   accepted, listed, wrote, needed>>
    /\ UNCHANGED <<textVars, diskVars>>

\* return response
ReturnPoll ==
    /\ pc = "polled"
    /\ fn = "job_status_poll_des"
    /\ pc' = "idle"
    /\ ret' = "response"
    /\ UNCHANGED <<keys_token, issued, issuedOk, loggedIn, reqAuth, reqLatest, reqLatestOk, fn, force,
                   job_status, response, lastReply, sleptLast, nreq, sentAny, preTok,
                   accepted, listed, wrote, needed>>
    /\ UNCHANGED <<textVars, diskVars>>

(***************************************************************************)
(* Files on disk and the listings of a finished job.                       *)
(***************************************************************************)
FileNames == {"DES.csv", "SDSS.csv", "galactic_extinction.txt", "other.txt", "g_cutout.fits"}
NoFile == [exists |-> FALSE, data |-> <<>>]
WriteFile(fs, name, data) == [fs EXCEPT ![name] = [exists |-> TRUE, data |-> data]]

QueryNames ==
    {<<"D", "E", "S", ".", "c", "s", "v">>, <<"m", ".", "j", "s", "o", "n">>, <<"c", "s", "v">>}
QueryListings == Strings(QueryNames, MaxItems)

\* for item in r.json(): if item['name'][-4:] == '.csv': return data.content
\* return None
RECURSIVE retrieve_query_csv_des(_)
retrieve_query_csv_des(listing) ==
    IF listing = <<>> THEN "None"
    ELSE IF PyFrom(Head(listing), -4) = <<".", "c", "s", "v">> THEN "bytes"
         ELSE retrieve_query_csv_des(Tail(listing))

\* An entry of the cutout job's listing: a plain file, or a directory whose own
\* listing r_2 may be empty and whose first sub-directory lists the names r_3.
FitsNames == {<<"g", ".", "f", "i", "t", "s">>, <<"x", ".", "p", "n", "g">>}
CutoutItems ==
    {[type |-> "file", r_2_empty |-> FALSE, r_3 |-> <<>>]}
        \cup {[type |-> "directory", r_2_empty |-> e, r_3 |-> l] :
                e \in BOOLEAN, l \in {<<>>} \cup {<<n>> : n \in FitsNames}}
CutoutListings == Strings(CutoutItems, MaxItems)

\* for f in r_3: if f["name"][-5:] == ".fits": ... f["name"][-6] ... file.write
RECURSIVE save_fits(_)
save_fits(r_3) ==
    IF r_3 = <<>> THEN [raised |-> FALSE, wrote |-> FALSE]
    ELSE IF PyFrom(Head(r_3), -5) = <<".", "f", "i", "t", "s">>
         THEN IF ~PyIndexOK(Head(r_3), -6)
              THEN [raised |-> TRUE, wrote |-> FALSE]
              ELSE LET rest == save_fits(Tail(r_3))
                   IN  [raised |-> rest.raised, wrote |-> TRUE]
         ELSE save_fits(Tail(r_3))

\* for item in r.json(): if item['type'] == "directory": r_2[0] ... r_3 ...
RECURSIVE save_cutouts(_)
save_cutouts(listing) ==
    IF listing = <<>> THEN [raised |-> FALSE, wrote |-> FALSE]
    ELSE LET item == Head(listing)
         IN  IF item.type # "directory" THEN save_cutouts(Tail(listing))
             ELSE IF item.r_2_empty THEN [raised |-> TRUE, wrote |-> FALSE]
             ELSE LET here == save_fits(item.r_3)
                  IN  IF here.raised THEN here
                      ELSE LET rest == save_cutouts(Tail(listing))
                           IN  [raised |-> rest.raised,
                                wrote |-> here.wrote \/ rest.wrote]

(***************************************************************************)
(* retrieve_des_photometry and save_des_cutout: log in, submit, poll, then *)
(* fetch the job's files.                                                  *)
(***************************************************************************)
\* login_des(); response = submit_query_job_des(query); job_id = response['jobid']
retrieve_des_photometry_submit(c, loginReply, submitReply) ==
    LET l == login_des(c, loginReply)
        s == submit_query_job_des(l.c, submitReply)
    IN  IF l.raised THEN [raised |-> TRUE, c |-> l.c, accepted |-> "none"]
        ELSE IF s.raised THEN [raised |-> TRUE, c |-> s.c, accepted |-> "none"]
        ELSE [raised |-> submitReply.status # "ok", c |-> s.c,
              accepted |-> submitReply.status]

\* if response['status'] == 'ok': return retrieve_query_csv_des(job_id=job_id)
retrieve_des_photometry_result(resp, listing) ==
    IF resp.status = "ok" THEN retrieve_query_csv_des(listing) ELSE "None"

RetrieveDesPhotometry(loginReply, submitReply) ==
    /\ pc = "idle"
    /\ LET r == retrieve_des_photometry_submit(Client, loginReply, submitReply)
       IN  /\ SetClient(r.c)
           /\ SetCall("retrieve_des_photometry",
                      IF r.raised THEN [Raised("KeyError") EXCEPT !.accepted = r.accepted]
                      ELSE [Fresh EXCEPT !.pc = "loop", !.accepted = r.accepted])
    /\ UNCHANGED <<textVars, diskVars>>

ReturnRetrieve(listing) ==
    /\ pc = "polled"
    /\ fn = "retrieve_des_photometry"
    /\ pc' = "idle"
    /\ ret' = retrieve_des_photometry_result(response, listing)
    /\ listed' = IF response.status = "ok" THEN retrieve_query_csv_des(listing) ELSE "none"
    /\ UNCHANGED <<keys_token, issued, issuedOk, loggedIn, reqAuth, reqLatest, reqLatestOk, fn, force,
                   job_status, response, lastReply, sleptLast, nreq, sentAny, preTok,
                   accepted, wrote, needed>>
    /\ UNCHANGED <<textVars, diskVars>>

\* login_des(); response = submit_cutout_job_des(...); if response['status'] == 'ok':
save_des_cutout_submit(c, loginReply, submitReply) ==
    LET l == login_des(c, loginReply)
        s == submit_cutout_job_des(l.c, submitReply)
    IN  IF l.raised THEN [raised |-> TRUE, c |-> l.c, accepted |-> "none"]
        ELSE IF s.raised THEN [raised |-> TRUE, c |-> s.c, accepted |-> "none"]
        ELSE [raised |-> FALSE, c |-> s.c, accepted |-> submitReply.status]

\* job_id = response['jobs'][0]['job_id']; the downloads; return True
save_des_cutout_result(resp, listing) ==
    IF ~resp.jobs THEN [ret |-> "KeyError", wrote |-> FALSE]
    ELSE LET d == save_cutouts(listing)
         IN  [ret |-> IF d.raised THEN "IndexError" ELSE "True", wrote |-> d.wrote]

SaveDesCutout(loginReply, submitReply) ==
    /\ pc = "idle"
    /\ LET r == save_des_cutout_submit(Client, loginReply, submitReply)
       IN  /\ SetClient(r.c)
           /\ SetCall("save_des_cutout",
                      IF r.raised THEN Raised("KeyError")
                      ELSE IF r.accepted = "ok"
                           THEN [Fresh EXCEPT !.pc = "loop", !.accepted = r.accepted]
                           ELSE [Returned("False") EXCEPT !.accepted = r.accepted])
    /\ UNCHANGED <<textVars, diskVars>>

ReturnCutout(listing) ==
    /\ pc = "polled"
    /\ fn = "save_des_cutout"
    /\ LET r == save_des_cutout_result(response, listing)
       IN  /\ ret' = r.ret
           /\ wrote' = r.wrote
           /\ listed' = IF r.wrote THEN "fits" ELSE "nofits"
           /\ files' = IF r.wrote THEN WriteFile(files, "g_cutout.fits", <<"fits">>)
                       ELSE files
    /\ pc' = "idle"
    /\ UNCHANGED <<keys_token, issued, issuedOk, loggedIn, reqAuth, reqLatest, reqLatestOk, fn, force,
                   job_status, response, lastReply, sleptLast, nreq, sentAny, preTok,
                   accepted, needed>>
    /\ UNCHANGED <<textVars, outputs, retrNF, extRetr, extVal, extCalls>>

(***************************************************************************)
(* The DESaccess client on its own.                                        *)
(***************************************************************************)
NoValue == 0
Fields == {"std", "frb"}
NoOutputs(field) ==
    [field |-> field, exists |-> FALSE, in_sdss |-> "absent", in_des |-> "absent",
     E_B_V_SandF |-> NoValue]

InitClient ==
    /\ keys_token = NoToken
    /\ issued = NoToken
    /\ issuedOk = NoToken
    /\ loggedIn = FALSE
    /\ reqAuth = NoToken
    /\ reqLatest = NoToken
    /\ reqLatestOk = NoToken
    /\ sentAny = FALSE
    /\ fn = "none"
    /\ pc = "idle"
    /\ ret = "none"
    /\ force = FALSE
    /\ job_status = ""
    /\ response = NoResponse
    /\ lastReply = NoResponse
    /\ sleptLast = FALSE
    /\ nreq = 0
    /\ preTok = NoToken
    /\ accepted = "none"
    /\ listed = "none"
    /\ wrote = FALSE
    /\ needed = FALSE

InitDisk(fields) ==
    /\ files = [n \in FileNames |-> NoFile]
    /\ outputs \in {NoOutputs(f) : f \in fields}
    /\ retrNF = [s \in {"sdss", "des"} |-> 0]
    /\ extRetr = 0
    /\ extVal = NoValue
    /\ extCalls = 0

InitText ==
    /\ text = <<>>
    /\ outstr = <<>>
    /\ spc = "unused"

InitDes == InitClient /\ InitDisk({"frb"}) /\ InitText

PollStep == (\E reply \in StatusReplies : PollIter(reply)) \/ Sleep \/ PollExit

NextDes ==
    \/ \E reply \in LoginReplies : LoginDes(reply)
    \/ \E reply \in SubmitReplies : SubmitQueryJobDes(reply)
    \/ \E reply \in SubmitReplies : SubmitCutoutJobDes(reply)
    \/ \E reply \in StatusReplies : GetJobStatusDes(reply)
    \/ JobStatusPollDes
    \/ \E l \in LoginReplies, s \in SubmitReplies : RetrieveDesPhotometry(l, s)
    \/ \E l \in LoginReplies, s \in SubmitReplies : SaveDesCutout(l, s)
    \/ PollStep
    \/ ReturnPoll
    \/ \E listing \in QueryListings : ReturnRetrieve(listing)
    \/ \E listing \in CutoutListings : ReturnCutout(listing)

SpecDes == InitDes /\ [][NextDes]_vars
FairDes == SpecDes /\ WF_vars(PollStep)

InitFors ==
    /\ InitClient
    /\ InitDisk({"frb"})
    /\ text \in Strings(FORS2Alphabet, MaxLen)
    /\ outstr = <<>>
    /\ spc = "fors_start"

SpecFors == InitFors /\ [][SaveFors2Calib]_vars

InitIrsa ==
    /\ InitClient
    /\ InitDisk({"frb"})
    /\ text \in Concats(XmlParts, MaxParts)
    /\ outstr = <<>>
    /\ spc = "irsa_start"

SpecIrsa == InitIrsa /\ [][RetrieveIrsaExtinction]_vars

(***************************************************************************)
(* Output values of a field (craftutils.params) and the update handlers    *)
(* that record in_sdss / in_des / E_B_V_SandF in them.                     *)
(***************************************************************************)
\* p.load_params / p.frb_output_params: None when the field has no output values yet
outputs_is_None(o) == ~o.exists

\* p.add_params / p.add_output_values_frb with {"in_sdss": flag}
add_in_sdss(o, flag) == [o EXCEPT !.exists = TRUE, !.in_sdss = flag]
\* ... with {"in_des": flag}
add_in_des(o, flag) == [o EXCEPT !.exists = TRUE, !.in_des = flag]
\* ... with {"E_B_V_SandF": value}
add_E_B_V_SandF(o, value) == [o EXCEPT !.exists = TRUE, !.E_B_V_SandF = value]

\* if outputs is None or "in_sdss" not in outputs or force:
sdss_needed(o, f) == outputs_is_None(o) \/ o.in_sdss = "absent" \/ f
\* if outputs is None or "in_des" not in outputs or force:
des_needed(o, f) == outputs_is_None(o) \/ o.in_des = "absent" \/ f

\* elif outputs[key] is True: return True / else: print(...)
already(flag) == IF flag = "True" THEN "True" ELSE "None"

\* params["in_..."] = True if response is not None else False
flag_of(resp) == IF resp # "None" THEN "True" ELSE "False"

UpdateSdssName == IF outputs.field = "std" THEN "update_std_sdss_photometry"
                  ELSE "update_frb_sdss_photometry"
UpdateDesName == IF outputs.field = "std" THEN "update_std_des_photometry"
                 ELSE "update_frb_des_photometry"

\* update_std_sdss_photometry / update_frb_sdss_photometry; df is what
\* retrieve_sdss_photometry returned ("None": import failed or no rows)
UpdateSdssPhotometry(f, df) ==
    /\ pc = "idle"
    /\ SetClient(Client)
    /\ IF sdss_needed(outputs, f)
       THEN /\ SetCall(UpdateSdssName,
                       [Returned(df) EXCEPT !.force = f, !.needed = TRUE,
                                            !.wrote = (df # "None")])
            /\ files' = IF df # "None" THEN WriteFile(files, "SDSS.csv", <<"df">>)
                        ELSE files
            /\ outputs' = add_in_sdss(outputs, flag_of(df))
            /\ retrNF' = IF f THEN retrNF
                         ELSE [retrNF EXCEPT !["sdss"] = Bump(retrNF["sdss"])]
       ELSE /\ SetCall(UpdateSdssName,
                       [Returned(already(outputs.in_sdss)) EXCEPT !.force = f])
            /\ UNCHANGED <<files, outputs, retrNF>>
    /\ UNCHANGED <<textVars, extRetr, extVal, extCalls>>

\* save_des_photometry called directly
SaveDesPhotometry(loginReply, submitReply) ==
    /\ pc = "idle"
    /\ LET r == retrieve_des_photometry_submit(Client, loginReply, submitReply)
       IN  /\ SetClient(r.c)
           /\ SetCall("save_des_photometry",
                      IF r.raised THEN [Raised("KeyError") EXCEPT !.accepted = r.accepted]
                      ELSE [Fresh EXCEPT !.pc = "loop", !.accepted = r.accepted])
    /\ UNCHANGED <<textVars, diskVars>>

\* data = retrieve_des_photometry(...); if data is not None: file.write(data); return data
save_des_photometry_result(resp, listing) ==
    LET data == retrieve_des_photometry_result(resp, listing)
    IN  [ret |-> data, wrote |-> data # "None"]

ReturnSave(listing) ==
    /\ pc = "polled"
    /\ fn = "save_des_photometry"
    /\ LET r == save_des_photometry_result(response, listing)
       IN  /\ ret' = r.ret
           /\ wrote' = r.wrote
           /\ files' = IF r.wrote THEN WriteFile(files, "DES.csv", <<"csv">>) ELSE files
    /\ listed' = IF response.status = "ok" THEN retrieve_query_csv_des(listing) ELSE "none"
    /\ pc' = "idle"
    /\ UNCHANGED <<keys_token, issued, issuedOk, loggedIn, reqAuth, reqLatest, reqLatestOk, fn, force,
                   job_status, response, lastReply, sleptLast, nreq, sentAny, preTok,
                   accepted, needed>>
    /\ UNCHANGED <<textVars, outputs, retrNF, extRetr, extVal, extCalls>>

\* update_std_des_photometry / update_frb_des_photometry, up to the poll loop
UpdateDesPhotometry(f, loginReply, submitReply) ==
    /\ pc = "idle"
    /\ IF des_needed(outputs, f)
       THEN LET r == retrieve_des_photometry_submit(Client, loginReply, submitReply)
            IN  /\ SetClient(r.c)
                /\ SetCall(UpdateDesName,
                           IF r.raised
                           THEN [Raised("KeyError") EXCEPT !.accepted = r.accepted,
                                                           !.force = f, !.needed = TRUE]
                           ELSE [Fresh EXCEPT !.pc = "loop", !.accepted = r.accepted,
                                              !.force = f, !.needed = TRUE])
                /\ retrNF' = IF f THEN retrNF
                             ELSE [retrNF EXCEPT !["des"] = Bump(retrNF["des"])]
       ELSE /\ SetClient(Client)
            /\ SetCall(UpdateDesName,
                       [Returned(already(outputs.in_des)) EXCEPT !.force = f])
            /\ UNCHANGED retrNF
    /\ UNCHANGED <<textVars, files, outputs, extRetr, extVal, extCalls>>

\* ... and from the poll's return: save, record in_des, return response
ReturnUpdateDes(listing) ==
    /\ pc = "polled"
    /\ fn = UpdateDesName
    /\ LET r == save_des_photometry_result(response, listing)
       IN  /\ ret' = r.ret
           /\ wrote' = r.wrote
           /\ files' = IF r.wrote THEN WriteFile(files, "DES.csv", <<"csv">>) ELSE files
           /\ outputs' = add_in_des(outputs, flag_of(r.ret))
    /\ listed' = IF response.status = "ok" THEN retrieve_query_csv_des(listing) ELSE "none"
    /\ pc' = "idle"
    /\ UNCHANGED <<keys_token, issued, issuedOk, loggedIn, reqAuth, reqLatest, reqLatestOk, fn, force,
                   job_status, response, lastReply, sleptLast, nreq, sentAny, preTok,
                   accepted, needed>>
    /\ UNCHANGED <<textVars, retrNF, extRetr, extVal, extCalls>>

InitUpdate == InitClient /\ InitDisk(Fields) /\ InitText

NextUpdate ==
    \/ \E f \in BOOLEAN, df \in {"None", "df"} : UpdateSdssPhotometry(f, df)
    \/ \E f \in BOOLEAN, l \in LoginReplies, s \in SubmitReplies : UpdateDesPhotometry(f, l, s)
    \/ \E l \in LoginReplies, s \in SubmitReplies : SaveDesPhotometry(l, s)
    \/ PollStep
    \/ \E listing \in QueryListings : ReturnSave(listing)
    \/ \E listing \in QueryListings : ReturnUpdateDes(listing)

SpecUpdate == InitUpdate /\ [][NextUpdate]_vars

(***************************************************************************)
(* IRSA extinction: save_irsa_extinction / update_frb_irsa_extinction.     *)
(***************************************************************************)
Values == 1..MaxVal
Tables == Strings({"microns", "x"}, MaxWords)

\* ext_str.replace("microns", "um"), on a table held as a sequence of words
RECURSIVE PyReplaceWord(_, _, _)
PyReplaceWord(s, old, new) ==
    IF s = <<>> THEN <<>>
    ELSE <<IF Head(s) = old THEN new ELSE Head(s)>> \o PyReplaceWord(Tail(s), old, new)

\* values, ext_str = retrieve_irsa_extinction(...); ext_str.replace; file.write(ext_str)
save_irsa_extinction(fs, output, tbl) ==
    LET ext_str == PyReplaceWord(tbl, "microns", "um")
    IN  [files |-> WriteFile(fs, output, ext_str), ext_str |-> ext_str]

\* save_irsa_extinction called directly, on any output path
SaveIrsaExtinction(output, v, tbl) ==
    /\ pc = "idle"
    /\ SetClient(Client)
    /\ SetCall("save_irsa_extinction", Returned("tuple"))
    /\ LET r == save_irsa_extinction(files, output, tbl)
       IN  /\ files' = r.files
           /\ outstr' = r.ext_str
    /\ text' = tbl
    /\ extVal' = v
    /\ UNCHANGED <<spc, outputs, retrNF, extRetr, extCalls>>

\* if 'E_B_V_SandF' not in outputs and not os.path.isfile(data_dir + "galactic_extinction.txt")
\* ('in' on None raises TypeError)
UpdateFrbIrsaExtinction(v, tbl) ==
    /\ pc = "idle"
    /\ outputs.field = "frb"
    /\ SetClient(Client)
    /\ IF outputs_is_None(outputs)
       THEN /\ SetCall("update_frb_irsa_extinction", Raised("TypeError"))
            /\ UNCHANGED <<textVars, diskVars>>
       ELSE IF outputs.E_B_V_SandF = NoValue /\ ~files["galactic_extinction.txt"].exists
       THEN LET r == save_irsa_extinction(files, "galactic_extinction.txt", tbl)
            IN  /\ SetCall("update_frb_irsa_extinction",
                           [Returned("tuple") EXCEPT !.needed = TRUE, !.wrote = TRUE])
                /\ files' = r.files
                /\ outstr' = r.ext_str
                /\ text' = tbl
                /\ outputs' = add_E_B_V_SandF(outputs, v)
                /\ extRetr' = Bump(extRetr)
                /\ extVal' = v
                /\ extCalls' = Bump(extCalls)
                /\ UNCHANGED <<spc, retrNF>>
       ELSE /\ SetCall("update_frb_irsa_extinction", Returned("None"))
            /\ extCalls' = Bump(extCalls)
            /\ UNCHANGED <<textVars, files, outputs, retrNF, extRetr, extVal>>

InitExt == InitClient /\ InitDisk({"frb"}) /\ InitText

NextExt ==
    \/ \E v \in Values, tbl \in Tables : UpdateFrbIrsaExtinction(v, tbl)
    \/ \E o \in {"galactic_extinction.txt", "other.txt"}, v \in Values, tbl \in Tables :
          SaveIrsaExtinction(o, v, tbl)
    \/ \E f \in BOOLEAN, df \in {"None", "df"} : UpdateSdssPhotometry(f, df)

SpecExt == InitExt /\ [][NextExt]_vars

(***************************************************************************)
(* Properties.                                                             *)
(***************************************************************************)
InLoop == pc \in {"loop", "sleep"}

\* C1: job_status_poll_des returns after a bounded number of status requests,
\* whatever the server replies: a call that has entered the loop leaves it.
C1_PollTerminates == InLoop ~> ~InLoop

Completed(name) == pc = "idle" /\ fn = name

\* C2: retrieve_des_photometry never raises; it returns None when the submission is
\* rejected, a status poll replies with an error, the job ends in 'failure' or no
\* '.csv' is listed, and the CSV bytes only for an accepted job polled to success
\* with a '.csv' listed.
C2_RetrieveReturnsNoneOnFailure ==
    (Completed("retrieve_des_photometry") /\ accepted # "none") =>
        /\ (\/ accepted = "error"
            \/ response.status # "ok"
            \/ response.job_status = "failure"
            \/ listed # "bytes") => ret = "None"
        /\ ret = "bytes" =>
              /\ accepted = "ok"
              /\ response.status = "ok"
              /\ response.job_status = "success"
              /\ listed = "bytes"

DesSavers == {"save_des_photometry", "update_std_des_photometry", "update_frb_des_photometry"}

\* C3: save_des_photometry, update_std_des_photometry and update_frb_des_photometry
\* return True if the photometry was retrieved and written to disk, False if not
\* (stated of the calls that return).
C3_SaveReturnsBool ==
    (pc = "idle" /\ fn \in DesSavers /\ ret # "KeyError") =>
        /\ ret \in {"True", "False"}
        /\ ret = "True" <=> wrote

\* C4: save_des_cutout returns False, without polling or writing, when the
\* submission is rejected; for an accepted submission it returns True only if the
\* job completed and its cutouts were retrieved, and False (no exception) when the
\* poll replies with an error or the job ends in 'failure'.
C4_CutoutReturnsBool ==
    Completed("save_des_cutout") =>
        /\ accepted = "error" => (ret = "False" /\ nreq = 0 /\ ~wrote)
        /\ accepted = "ok" =>
              /\ ret = "True" => (/\ response.status = "ok"
                                  /\ response.job_status = "success"
                                  /\ wrote)
              /\ (response.status # "ok" \/ response.job_status = "failure") => ret = "False"

\* What C5 describes: the retrieved text without the line of '-' that follows the
\* first line; unchanged when the second line does not begin with '-'.
SecondLineStart(string) == PyFind(string, <<"\n">>) + 1
HasSecondLine(string) ==
    PyFind(string, <<"\n">>) # -1 /\ SecondLineStart(string) < Len(string)
SeparatorEnd(string) ==
    LET i == SecondLineStart(string)
        ends == {j \in (i + 1)..(Len(string) - 1) :
                   /\ PyAt(string, j) = "\n"
                   /\ \A k \in i..(j - 1) : PyAt(string, k) = "-"}
    IN  IF ends = {} THEN -1 ELSE CHOOSE j \in ends : TRUE

\* C5: save_fors2_calib writes and returns the retrieved text with only the line of
\* '-' after the first line (and its newline) removed; when the second line does
\* not begin with '-' nothing is removed.
C5_StripsOnlySeparator ==
    LET string == retrieve_fors2_calib(text)
        i == SecondLineStart(string)
    IN  (spc \in {"fors_done", "fors_raised"} /\ HasSecondLine(string)) =>
            /\ SeparatorEnd(string) # -1 =>
                  /\ spc = "fors_done"
                  /\ outstr = PySlice(string, 0, i) \o PyFrom(string, SeparatorEnd(string) + 1)
            /\ PyAt(string, i) # "-" => (spc = "fors_done" /\ outstr = string)

\* Start indices of 'https://' that lie before the first 'extinction.tbl'.
HttpsBefore(xml) ==
    {k \in 0..(PyFind(xml, ExtinctionTbl) - 1) :
        PySlice(xml, k, k + Len(Https)) = Https}
LastHttpsBefore(xml) ==
    CHOOSE k \in HttpsBefore(xml) : \A m \in HttpsBefore(xml) : m <= k
StartsWith(s, prefix) == PySlice(s, 0, Len(prefix)) = prefix
EndsWith(s, suffix) == Len(s) >= Len(suffix) /\ PyFrom(s, Len(s) - Len(suffix)) = suffix

\* C6 as stated: for every XML that contains 'extinction.tbl' the URL requested
\* begins with 'https://' and ends with 'extinction.tbl'.
C6_UrlForEveryXml ==
    (spc = "irsa_done" /\ PyFind(text, ExtinctionTbl) # -1) =>
        (StartsWith(outstr, Https) /\ EndsWith(outstr, ExtinctionTbl))

\* C6 (amended): for every XML in which 'https://' occurs before the first
\* 'extinction.tbl', the URL requested runs from the last such 'https://' to the end
\* of that 'extinction.tbl'; it begins with 'https://' and ends with 'extinction.tbl'.
C6_UrlFromLastHttps ==
    (spc \in {"irsa_done", "irsa_hang"} /\ HttpsBefore(text) # {}) =>
        /\ spc = "irsa_done"
        /\ outstr = PySlice(text, LastHttpsBefore(text),
                            PyFind(text, ExtinctionTbl) + Len(ExtinctionTbl))
        /\ StartsWith(outstr, Https)
        /\ EndsWith(outstr, ExtinctionTbl)

\* Two 'https://' precede the table name and the later one starts the URL.
C6_Witness ==
    /\ spc = "irsa_done"
    /\ Cardinality(HttpsBefore(text)) = 2
    /\ outstr = Https \o ExtinctionTbl

Updaters == {"update_std_sdss_photometry", "update_frb_sdss_photometry",
             "update_std_des_photometry", "update_frb_des_photometry"}

\* C7: on one field, at most one force=False call of an update function performs a
\* retrieval; a completed force=True call has retrieved and recorded the flag.
C7_AtMostOneRetrieval ==
    /\ \A s \in {"sdss", "des"} : retrNF[s] <= 1
    /\ (pc = "idle" /\ fn \in Updaters /\ force /\ ret # "KeyError") =>
          /\ needed
          /\ outputs.exists
          /\ fn \in {"update_std_sdss_photometry", "update_frb_sdss_photometry"}
                => outputs.in_sdss # "absent"
          /\ fn \in {"update_std_des_photometry", "update_frb_des_photometry"}
                => outputs.in_des # "absent"

Authenticated == {"submit_query_job_des", "submit_cutout_job_des", "get_job_status_des"}

\* C8 as stated: without a stored token the authenticated functions raise KeyError
\* and send nothing; once login_des has succeeded a token stays stored; every
\* authenticated request carries the token the server issued last; a rejected
\* submission leaves the stored token unchanged.
C8_TokenProtocol ==
    /\ (pc = "idle" /\ fn \in Authenticated /\ preTok = NoToken) =>
          (ret = "KeyError" /\ ~sentAny)
    /\ loggedIn => keys_token # NoToken
    /\ reqAuth = reqLatest
    /\ sentAny => reqAuth # NoToken
    /\ (pc = "idle" /\ fn \in {"submit_query_job_des", "submit_cutout_job_des"}
          /\ accepted = "error") => keys_token = preTok

\* C8 (amended): as C8, with "the token the server issued last" read as the token of
\* the latest login reply, accepted submission reply or status reply: a token
\* carried by a reply that rejects a submission is never stored.
C8_TokenProtocolAmended ==
    /\ (pc = "idle" /\ fn \in Authenticated /\ preTok = NoToken) =>
          (ret = "KeyError" /\ ~sentAny)
    /\ loggedIn => keys_token # NoToken
    /\ reqAuth = reqLatestOk
    /\ keys_token = issuedOk
    /\ sentAny => reqAuth # NoToken
    /\ (pc = "idle" /\ fn \in {"submit_query_job_des", "submit_cutout_job_des"}
          /\ accepted = "error") => keys_token = preTok

\* A second status request went out under the token the first reply issued, and
\* the stored token has since been refreshed to another one.
C8_Witness ==
    /\ loggedIn
    /\ nreq = 2
    /\ reqAuth # NoToken
    /\ reqAuth = reqLatestOk
    /\ keys_token # reqAuth
    /\ keys_token = issuedOk

\* C9: job_status_poll_des returns the reply to its last status request; that reply
\* has status other than 'ok' or reports 'success' or 'failure'; it sleeps between
\* two requests but not after the final one.
C9_PollReturnsFinalReply ==
    /\ pc = "polled" =>
          /\ response = lastReply
          /\ response.status # "ok" \/ response.job_status \in {"success", "failure"}
          /\ ~sleptLast
    /\ (pc = "loop" /\ nreq > 0) => sleptLast

\* C10: update_frb_irsa_extinction retrieves only when the output values lack
\* 'E_B_V_SandF' and no galactic_extinction.txt exists, then writes the table,
\* records the values and returns the pair; otherwise it returns nothing; at most
\* one retrieval is ever made and after the first completed call the value is
\* recorded.
C10_ExtinctionOnce ==
    /\ Completed("update_frb_irsa_extinction") =>
          /\ ret \in {"tuple", "None"}
          /\ ret = "tuple" =>
                /\ files["galactic_extinction.txt"] = [exists |-> TRUE, data |-> outstr]
                /\ outputs.E_B_V_SandF = extVal
    /\ extRetr <= 1
    /\ extCalls >= 1 => outputs.E_B_V_SandF # NoValue
====
